---- MODULE Spec2Model ----
(***************************************************************************)
(* Model of the benchmark execution engine of src/main.py:                 *)
(*   Record, PystoneBenchmark (driver and workload kernel),                *)
(*   BenchmarkWorker (worker / cancellation wrapper), and the handlers of  *)
(*   PystoneApp that create workers and request cancellation.              *)
(* The worker thread and the GUI thread interleave at the granularity of   *)
(* the reads and writes of the two shared flags is_running / should_stop.  *)
(***************************************************************************)
EXTENDS Integers, Sequences, FiniteSets, TLC

\* ------------------------------------------------------------------ bounds
\* largest iteration count a client passes to BenchmarkWorker
MaxLoops == 2
\* number of BenchmarkWorker objects created in one behaviour
MaxWorkers == 2
\* QThread.idealThreadCount() of the host: the thread limit of a QThreadPool
\* on which setMaxThreadCount was never called
IdealThreadCount == 2
\* largest duration (in clock ticks) of the warm-up and of the timed loop
MaxTick == 1

\* number of Record objects created outside a run, copies included
MaxRecords == 3
\* number of attribute assignments made on them
MaxAssigns == 1
\* number of start_benchmark executions in one behaviour
MaxStarts == 1
\* largest 'Number of runs' entered before a click on Start
MaxRuns == 2
\* start() calls on a HardwareMonitor that create a thread
MaxMonitorThreads == 2
\* smallest iteration count whose timed chunks hold more than one iteration
BigLoops == 200
\* an iteration count with loops // 100 above 1000
HugeLoops == 200000

\* --------------------------------------------------------- program constants
LOOPS == 50000
Ident1 == 1
Ident2 == 2
Ident3 == 3
Ident4 == 4
Ident5 == 5
\* self.TRUE / self.FALSE of PystoneBenchmark
PyTRUE == 1
PyFALSE == 0
\* PystoneApp.total_runs between two handlers: 1 from __init__ and from
\* line 588, which every start_benchmark reaches
total_runs == 1
\* QThreadPool.setMaxThreadCount(1)
MaxThreadCount == 1
\* Python's None as a Record reference
None == 0
\* len(Array1Glob) = len(Array2Glob) = len(Array2Glob[k])
ArrayLen == 51
\* ord('A'), ord('B'), ord('X'), ord('\0')
ChA == 65
ChB == 66
ChX == 88
ChNul == 0

\* the iteration counts a client may request (0 is the invalid one)
LoopsValues == 0..MaxLoops
\* the iteration counts of the single runs that are followed chunk by chunk:
\* 1, the counts around the first one with chunks of 2 iterations, the
\* default, and one whose warm-up chunk is capped at 1000
DriverLoops == {1, BigLoops - 1, BigLoops, BigLoops + 1, LOOPS, HugeLoops}
\* the iteration counts of the single runs that are cancelled at any step
CancelLoops == {1, LOOPS, HugeLoops}
Ticks == 0..MaxTick

Max(a, b) == IF a >= b THEN a ELSE b
Min(a, b) == IF a <= b THEN a ELSE b

\* ------------------------------------------------------------------ strings
\* Python strings are sequences of code points; s[k] of Python is Str[k+1].
\* "DHRYSTONE PROGRAM, " (19 characters)
StrPrefix == <<68,72,82,89,83,84,79,78,69,32,80,82,79,71,82,65,77,44,32>>
\* "DHRYSTONE PROGRAM, SOME STRING"
StrSome == StrPrefix \o <<83,79,77,69,32,83,84,82,73,78,71>>
\* "DHRYSTONE PROGRAM, 1'ST STRING"
String1Loc == StrPrefix \o <<49,39,83,84,32,83,84,82,73,78,71>>
\* "DHRYSTONE PROGRAM, 2'ND STRING"
String2Loc == StrPrefix \o <<50,39,78,68,32,83,84,82,73,78,71>>
\* the int 0 that Record.__init__ stores in StringComp by default
StrDefault == <<>>

RECURSIVE StrGreaterFrom(_, _, _)
StrGreaterFrom(s, t, k) ==
    IF k > Len(s) THEN FALSE
    ELSE IF k > Len(t) THEN TRUE
    ELSE IF s[k] # t[k] THEN s[k] > t[k]
    ELSE StrGreaterFrom(s, t, k + 1)
\* Python's s > t on strings (lexicographic on code points)
StrGreater(s, t) == StrGreaterFrom(s, t, 1)

\* ------------------------------------------------------------------ Record
\* Record.__init__ with its defaults
NewRecord == [PtrComp |-> None, Discr |-> 0, EnumComp |-> 0, IntComp |-> 0,
              StringComp |-> StrDefault]
\* mutant: the arguments IntComp and EnumComp of the constructor call swapped
RecordCopySwapped(r) == [PtrComp |-> r.PtrComp, Discr |-> r.Discr, EnumComp |-> r.IntComp,
                         IntComp |-> r.EnumComp, StringComp |-> r.StringComp]

\* Record.copy: a new Record with the same five fields (PtrComp shared)
RecordCopy(r) == [PtrComp |-> r.PtrComp, Discr |-> r.Discr, EnumComp |-> r.EnumComp,
                  IntComp |-> r.IntComp, StringComp |-> r.StringComp]
\* the smallest address not used by a live Record
FreshAddr(heap) == CHOOSE a \in 1..(Cardinality(DOMAIN heap) + 1) : a \notin DOMAIN heap
\* heap with a Record stored at address a
HeapPut(heap, a, r) == [x \in (DOMAIN heap) \cup {a} |-> IF x = a THEN r ELSE heap[x]]
RECURSIVE ReachFrom(_, _, _)
ReachFrom(heap, a, seen) ==
    IF a = None \/ a \in seen \/ a \notin DOMAIN heap THEN seen
    ELSE ReachFrom(heap, heap[a].PtrComp, seen \cup {a})
\* reference counting: Records no longer reachable from the two globals are freed
Collect(heap, roots) ==
    LET live == UNION {ReachFrom(heap, a, {}) : a \in roots}
    IN [x \in live |-> heap[x]]

\* --------------------------------------------------------- workload kernel
Proc7(IntParI1, IntParI2) == IntParI2 + (IntParI1 + 2)

Func1(CharPar1, CharPar2) == IF CharPar1 # CharPar2 THEN Ident1 ELSE Ident2

\* Func3 has the body `pass`: it returns None, which is false
Func3(EnumParIn) == FALSE

Proc6(EnumParIn, IntGlob) ==
    LET out0 == IF ~Func3(EnumParIn) THEN Ident4 ELSE EnumParIn
    IN CASE EnumParIn = Ident1 -> Ident1
         [] EnumParIn = Ident2 -> (IF IntGlob > 100 THEN Ident1 ELSE Ident4)
         [] EnumParIn = Ident3 -> Ident2
         [] EnumParIn = Ident5 -> Ident3
         [] OTHER -> out0

\* mutant: Func2 compares the characters at the same index of both strings
Func2SameIndex(StrParI1, StrParI2) ==
    IF Func1(StrParI1[2], StrParI2[2]) = Ident1
    THEN [ok |-> TRUE, iters |-> 1,
          ret |-> IF StrGreater(StrParI1, StrParI2) THEN PyTRUE ELSE PyFALSE]
    ELSE [ok |-> FALSE, iters |-> 0, ret |-> PyFALSE]

\* Func2: [ret, iters, ok]; ok = FALSE when the while loop never ends
\* (Func1 # Ident1 leaves IntLoc unchanged)
Func2(StrParI1, StrParI2) ==
    IF Func1(StrParI1[2], StrParI2[3]) = Ident1
    THEN LET CharLoc == ChA
         IN [ok |-> TRUE, iters |-> 1,
             ret |-> IF CharLoc = ChX THEN PyTRUE
                     ELSE IF StrGreater(StrParI1, StrParI2) THEN PyTRUE ELSE PyFALSE]
    ELSE [ok |-> FALSE, iters |-> 0, ret |-> PyFALSE]

\* Python's `not x` on 0/1
PyNot(x) == IF x = 0 THEN 1 ELSE 0

\* Proc5 and Proc4 on the globals
Proc5(g) == [g EXCEPT !.Char1Glob = ChA, !.BoolGlob = PyFALSE]
Proc4(g) == [g EXCEPT !.Char2Glob = ChB]

\* Array1Glob = [0] * 51 and Array2Glob (51 rows of 51 zeros) are kept
\* sparsely: a cell that was never assigned holds 0
ArrayGet(a, k) == IF k \in DOMAIN a THEN a[k] ELSE 0
ArrayPut(a, k, v) == [x \in (DOMAIN a) \cup {k} |-> IF x = k THEN v ELSE a[x]]
MatrixGet(m, r, k) == IF r \in DOMAIN m THEN ArrayGet(m[r], k) ELSE 0
MatrixPut(m, r, k, v) ==
    ArrayPut(m, r, ArrayPut(IF r \in DOMAIN m THEN m[r] ELSE << >>, k, v))

\* mutant: IntLoc = IntParI1 + 25
Proc8IntLocOff(IntParI1) == IntParI1 + 25

\* Proc8, line 346: IntLoc = IntParI1 + 5
Proc8IntLoc(IntParI1) == IntParI1 + 5

\* the list indices Proc8 uses (rows and columns), lines 347-355
Proc8Indices(IntParI1) ==
    LET IntLoc == Proc8IntLoc(IntParI1)
    IN {IntLoc, IntLoc + 1, IntLoc + 30, IntLoc - 1, IntLoc + 20}

\* the indices a Python list of ArrayLen elements accepts
ListIndices == (0 - ArrayLen)..(ArrayLen - 1)

\* Proc8, line 348: Array1Par[IntLoc+1] = Array1Par[IntLoc]
Proc8Line348(a, IntLoc) == ArrayPut(a, IntLoc + 1, ArrayGet(a, IntLoc))
\* Proc8, lines 347-349 on Array1Par
Proc8Array1(a, IntLoc, IntParI2) ==
    ArrayPut(Proc8Line348(ArrayPut(a, IntLoc, IntParI2), IntLoc), IntLoc + 30, IntLoc)
\* mutant: line 354 stores its cell back without the increment
Proc8Line354NoIncrement(m, IntLoc) ==
    MatrixPut(m, IntLoc, IntLoc - 1, MatrixGet(m, IntLoc, IntLoc - 1))
\* Proc8, line 354: Array2Par[IntLoc][IntLoc-1] = Array2Par[IntLoc][IntLoc-1] + 1
Proc8Line354(m, IntLoc) == MatrixPut(m, IntLoc, IntLoc - 1, MatrixGet(m, IntLoc, IntLoc - 1) + 1)
\* Proc8, lines 351-355 on Array2Par, with Array1Par as lines 347-349 left it
Proc8Array2(m, a, IntLoc) ==
    MatrixPut(Proc8Line354(MatrixPut(MatrixPut(m, IntLoc, IntLoc, IntLoc),
                                     IntLoc, IntLoc + 1, IntLoc), IntLoc),
              IntLoc + 20, IntLoc, ArrayGet(a, IntLoc))
\* Proc8 once IntLoc is known
Proc8At(g, a, IntLoc) ==
    [g EXCEPT !.Array1Glob = a, !.Array2Glob = Proc8Array2(g.Array2Glob, a, IntLoc),
              !.IntGlob = 5]

\* Proc8(Array1Glob, Array2Glob, IntParI1, IntParI2)
Proc8(g, IntParI1, IntParI2) ==
    Proc8At(g, Proc8Array1(g.Array1Glob, Proc8IntLoc(IntParI1), IntParI2),
            Proc8IntLoc(IntParI1))

\* Proc3(PtrParOut) called from Proc1 with self.PtrGlb set: returns the new
\* globals and the value returned
Proc3(g, PtrParOut) ==
    LET out == IF g.PtrGlb # None THEN g.heap[g.PtrGlb].PtrComp ELSE PtrParOut
        ig == IF g.PtrGlb # None THEN g.IntGlob ELSE 100
    IN [ret |-> out,
        g |-> [g EXCEPT !.IntGlob = ig,
                        !.heap[g.PtrGlb].IntComp = Proc7(10, ig)]]

\* mutant: NextRecord = self.PtrGlb, without copy()
Proc1NextRecordAlias(g) == [next |-> g.PtrGlb, heap |-> g.heap, nrec |-> g.nrec]

\* Proc1, line 274: NextRecord = self.PtrGlb.copy(), a newly allocated Record
Proc1NextRecord(g) ==
    [next |-> FreshAddr(g.heap),
     heap |-> HeapPut(g.heap, FreshAddr(g.heap), RecordCopy(g.heap[g.PtrGlb])),
     nrec |-> g.nrec + 1]

\* mutant: line 288 left out
Proc1KeepNext(heap, next) == heap

\* Proc1, line 288: NextRecord.PtrComp = None
Proc1ClearNext(heap, next) == [heap EXCEPT ![next].PtrComp = None]

\* Proc1, line 274: PtrParIn.PtrComp = NextRecord
Proc1Line274(heap, PtrParIn, next) == [heap EXCEPT ![PtrParIn].PtrComp = next]
\* Proc1, line 275: PtrParIn.IntComp = 5
Proc1Line275(heap, PtrParIn) == [heap EXCEPT ![PtrParIn].IntComp = 5]
\* Proc1, line 276: NextRecord.IntComp = PtrParIn.IntComp
Proc1Line276(heap, PtrParIn, next) == [heap EXCEPT ![next].IntComp = heap[PtrParIn].IntComp]
\* Proc1, line 277: NextRecord.PtrComp = PtrParIn.PtrComp
Proc1Line277(heap, PtrParIn, next) == [heap EXCEPT ![next].PtrComp = heap[PtrParIn].PtrComp]
\* Proc1, lines 274-277 on the Records
Proc1Link(heap, PtrParIn, next) ==
    Proc1Line277(Proc1Line276(Proc1Line275(Proc1Line274(heap, PtrParIn, next),
                                           PtrParIn), PtrParIn, next), PtrParIn, next)

\* Proc1, line 278: the value Proc3 returned is stored in NextRecord.PtrComp
Proc1StoreProc3(p3, next) == [p3.g EXCEPT !.heap[next].PtrComp = p3.ret]
\* Proc1, line 278: NextRecord.PtrComp = self.Proc3(NextRecord.PtrComp)
Proc1Line278(g, next) == Proc1StoreProc3(Proc3(g, g.heap[next].PtrComp), next)

\* Proc1, line 281: NextRecord.IntComp = 6
Proc1Line281(heap, next) == [heap EXCEPT ![next].IntComp = 6]
\* Proc1, line 283: NextRecord.PtrComp = self.PtrGlb.PtrComp
Proc1Line283(heap, PtrGlb, next) == [heap EXCEPT ![next].PtrComp = heap[PtrGlb].PtrComp]
\* Proc1, line 284: NextRecord.IntComp = self.Proc7(NextRecord.IntComp, 10)
Proc1Line284(heap, next) == [heap EXCEPT ![next].IntComp = Proc7(heap[next].IntComp, 10)]
\* Proc1, lines 281-284: the branch NextRecord.Discr == Ident1
Proc1Then(g, PtrParIn, next) ==
    [ret |-> PtrParIn,
     g |-> [g EXCEPT !.heap =
              Proc1Line284(
                Proc1Line283(
                  [Proc1Line281(g.heap, next) EXCEPT ![next].EnumComp =
                        Proc6(g.heap[PtrParIn].EnumComp, g.IntGlob)],
                  g.PtrGlb, next),
                next)]]
\* Proc1, line 286: PtrParIn = NextRecord.copy()
Proc1Else(g, next) ==
    [ret |-> FreshAddr(g.heap),
     g |-> [g EXCEPT !.heap = HeapPut(g.heap, FreshAddr(g.heap), RecordCopy(g.heap[next])),
                     !.nrec = g.nrec + 1]]
\* Proc1, lines 280-286
Proc1Branch(g, PtrParIn, next) ==
    IF g.heap[next].Discr = Ident1 THEN Proc1Then(g, PtrParIn, next)
    ELSE Proc1Else(g, next)

\* the Records no longer referenced once Proc1 has returned are freed
Proc1Free(g) == [g EXCEPT !.heap = Collect(g.heap, {g.PtrGlb, g.PtrGlbNext})]
\* Proc1, lines 288-289, and line 245: self.PtrGlb = <the value returned>
Proc1Return(r, next) ==
    Proc1Free([r.g EXCEPT !.heap = Proc1ClearNext(r.g.heap, next), !.PtrGlb = r.ret])

\* Proc1 once NextRecord is allocated
Proc1From(g, PtrParIn, nr) ==
    Proc1Return(
        Proc1Branch(
            Proc1Line278([g EXCEPT !.heap = Proc1Link(nr.heap, PtrParIn, nr.next),
                                   !.nrec = nr.nrec], nr.next),
            PtrParIn, nr.next),
        nr.next)

\* Proc1(PtrParIn) with PtrParIn = self.PtrGlb; the result is stored in PtrGlb
Proc1(g, PtrParIn) == Proc1From(g, PtrParIn, Proc1NextRecord(g))

\* Proc2 reads its local EnumLoc (line 298), which only the branch taken when
\* Char1Glob is 'A' assigns
Proc2Bound(g) == g.Char1Glob = ChA

\* lines 239-242: the iterations of `while IntLoc1 < IntLoc2`, whose body
\* adds 1 to IntLoc1
RECURSIVE WhileIters(_, _)
WhileIters(IntLoc1, IntLoc2) ==
    IF IntLoc1 < IntLoc2 THEN 1 + WhileIters(IntLoc1 + 1, IntLoc2) ELSE 0

\* lines 247-251: the iterations of `while CharIndex <= self.Char2Glob`, whose
\* body moves CharIndex to the next character
RECURSIVE CharLoopIters(_, _)
CharLoopIters(CharIndex, Char2Glob) ==
    IF CharIndex <= Char2Glob THEN 1 + CharLoopIters(CharIndex + 1, Char2Glob) ELSE 0

\* a kernel pass comes to its end: the loop of Func2 is the one loop of the
\* kernel that can run for ever (the other loops count up to a bound or leave
\* by break or by an exception)
KernelTerminates(g) == Func2(String1Loc, String2Loc).ok

\* the exception the statements after Proc5 and Proc4 raise, <<>> when they
\* raise none
KernelFaultAfterProc4(g, IntLoc1) ==
    IF ~(Proc8Indices(IntLoc1) \subseteq ListIndices) THEN <<"IndexError">>
    ELSE IF g.PtrGlb = None THEN <<"AttributeError">>
    ELSE IF ~Proc2Bound(g) THEN <<"UnboundLocalError">>
    ELSE <<>>

\* the exception a kernel pass started on g raises, <<>> when it raises none:
\* IndexError from Proc8, AttributeError from Proc1 / Proc3 on a None PtrGlb,
\* UnboundLocalError from Proc2
KernelFault(g) == KernelFaultAfterProc4(Proc4(Proc5(g)), 2 + 1)

\* line 237: self.BoolGlob = not self.Func2(String1Loc, String2Loc)
KernelLine237(g) == [g EXCEPT !.BoolGlob = PyNot(Func2(String1Loc, String2Loc).ret)]
\* line 245: self.PtrGlb = self.Proc1(self.PtrGlb)
KernelLine245(g) == Proc1(g, g.PtrGlb)
\* bookkeeping: one more kernel pass done
KernelPassDone(g) == [g EXCEPT !.passes = g.passes + 1]

\* one pass of the workload kernel (the statements after the inner j loop).
\* The character loop from 'A' to Char2Glob, the arithmetic on IntLoc1..3 and
\* Proc2 change locals only (Proc6 and Proc2 write no global), so they leave
\* the benchmark object as it is.
KernelPass(g) ==
    LET IntLoc1a == 2
        IntLoc2 == 3
        \* while IntLoc1 < IntLoc2: runs once, IntLoc3 = Proc7(2, 3), IntLoc1 = 3
        IntLoc3 == Proc7(IntLoc1a, IntLoc2)
        IntLoc1 == IntLoc1a + 1
    IN KernelPassDone(KernelLine245(Proc8(KernelLine237(Proc4(Proc5(g))),
                                          IntLoc1, IntLoc3)))


\* ---------------------------------------------------------- driver helpers
\* mutant: the warm-up chunk without its cap of 1000
WarmupChunkSizeNoCap(loops) == Max(1, loops \div 100)

\* warmup_chunk = min(1000, max(1, loops // 100))
WarmupChunkSize(loops) == Min(1000, Max(1, loops \div 100))
\* chunk_size = max(1, loops // 100)
ChunkSize(loops) == Max(1, loops \div 100)

\* a throughput value loops / benchtime, kept as an exact fraction
ZeroStones == [num |-> 0, den |-> 1]
\* mutant: the guard written as benchtime < 0
LoopsPerBenchtimeLt(loops, benchtime) ==
    IF benchtime < 0 THEN ZeroStones ELSE [num |-> loops, den |-> benchtime]

\* lines 260-263: 0.0 when benchtime <= 0, loops / benchtime otherwise
LoopsPerBenchtime(loops, benchtime) ==
    IF benchtime <= 0 THEN ZeroStones ELSE [num |-> loops, den |-> benchtime]

\* the value of `benchtime, stones`: (None, None) or a pair
NoResult == [none |-> TRUE, benchtime |-> 0, stones |-> ZeroStones]
Result(benchtime, stones) == [none |-> FALSE, benchtime |-> benchtime, stones |-> stones]

\* the four signals of BenchmarkSignals
ProgressEvent(current, total) ==
    [kind |-> "progress_updated", cur |-> current, total |-> total,
     benchtime |-> 0, stones |-> ZeroStones, msg |-> <<>>]
FinishedEvent(benchtime, stones) ==
    [kind |-> "finished", cur |-> 0, total |-> 0,
     benchtime |-> benchtime, stones |-> stones, msg |-> <<>>]
StoppedEvent ==
    [kind |-> "stopped", cur |-> 0, total |-> 0,
     benchtime |-> 0, stones |-> ZeroStones, msg |-> <<>>]
\* error_msg = f"Error in benchmark: {str(e)}"
ErrorEvent(e) ==
    [kind |-> "error", cur |-> 0, total |-> 0,
     benchtime |-> 0, stones |-> ZeroStones, msg |-> <<"Error in benchmark: ", e>>]

\* BenchmarkWorker.run.progress_callback applied to a worker record: the call
\* is recorded, and progress_updated is emitted unless is_running is false
ProgressCallback(wr, current, total) ==
    [wr EXCEPT !.calls = Append(wr.calls, <<current, total>>),
               !.callIters = Append(wr.callIters, wr.iters),
               !.emitted = IF wr.is_running
                           THEN Append(wr.emitted, ProgressEvent(current, total))
                           ELSE wr.emitted]

\* mutant: finished is emitted without looking at is_running
TerminalSignalsNoFlag(is_running, result) ==
    IF ~result.none THEN <<FinishedEvent(result.benchtime, result.stones)>>
    ELSE IF ~is_running THEN <<StoppedEvent>>
    ELSE <<>>

\* lines 73-79 of BenchmarkWorker.run: the terminal signals emitted after
\* run_benchmark returned normally
TerminalSignals(is_running, result) ==
    IF is_running /\ ~result.none THEN <<FinishedEvent(result.benchtime, result.stones)>>
    ELSE IF ~is_running THEN <<StoppedEvent>>
    ELSE <<>>

\* mutant: the two arrays are not re-created
SetupGlobalsKeepArrays(g) ==
    [g EXCEPT !.IntGlob = 0, !.BoolGlob = PyFALSE, !.Char1Glob = ChNul,
              !.Char2Glob = ChNul,
              !.PtrGlb = None, !.PtrGlbNext = None, !.heap = << >>]

\* PystoneBenchmark.setup_globals: cleanup() of both chains, then the reset
SetupGlobals(g) ==
    [g EXCEPT !.IntGlob = 0, !.BoolGlob = PyFALSE, !.Char1Glob = ChNul,
              !.Char2Glob = ChNul,
              !.Array1Glob = << >>, !.Array2Glob = << >>,
              !.PtrGlb = None, !.PtrGlbNext = None, !.heap = << >>]

\* PystoneBenchmark.__init__
NewBenchmark ==
    SetupGlobals([running |-> FALSE, should_stop |-> FALSE, current_loops |-> 0,
                  total_loops |-> LOOPS,
                  IntGlob |-> 0, BoolGlob |-> 0, Char1Glob |-> 0, Char2Glob |-> 0,
                  Array1Glob |-> << >>, Array2Glob |-> << >>,
                  PtrGlb |-> None, PtrGlbNext |-> None, heap |-> << >>,
                  nrec |-> 0, passes |-> 0, residue |-> FALSE])

\* lines 186-190: the entry of run_benchmark (nrec, passes and residue are
\* bookkeeping of the run: Records allocated, kernel passes done, and whether
\* setup_globals found globals an earlier run had changed)
RunBenchmarkEntry(g, loops) ==
    [SetupGlobals(g) EXCEPT !.running = TRUE, !.should_stop = FALSE,
                            !.current_loops = 0, !.total_loops = loops,
                            !.nrec = 0, !.passes = 0,
                            !.residue = (SetupGlobals(g) # g)]

\* lines 204-213: the two persistent Records and Array2Glob[8][7] = 10
CreateRecords(g) ==
    LET next == FreshAddr(g.heap)
        h1 == HeapPut(g.heap, next, NewRecord)
        glb == FreshAddr(h1)
        h2 == HeapPut(h1, glb, [NewRecord EXCEPT !.PtrComp = next, !.Discr = Ident1,
                                                 !.EnumComp = Ident3, !.IntComp = 40,
                                                 !.StringComp = StrSome])
    IN [g EXCEPT !.heap = h2, !.PtrGlbNext = next, !.PtrGlb = glb,
                 !.nrec = g.nrec + 2,
                 !.Array2Glob = MatrixPut(g.Array2Glob, 8, 7, 10)]

\* BenchmarkWorker.__init__ (the fields after is_running are bookkeeping of
\* the run: the pool the runnable was handed to, loop index, clock readings,
\* result, pending exception, logs, and whether the GUI thread has run the
\* slot connected to its finished signal, the iterations of the timed loop
\* completed so far and their number at each invocation of the callback,
\* whether run_next_benchmark created the worker, whether stop_benchmark was
\* invoked while the worker was executing, whether a call of stop() on the
\* worker has returned before the run ended, and whether progress_updated was
\* emitted after that)
NewWorker(loops, b, pool) ==
    [loops |-> loops, benchmark |-> b, is_running |-> TRUE,
     pool |-> pool, pc |-> "queued", i |-> 0, nulltime |-> 0, looptime |-> 0,
     result |-> NoResult, exc |-> <<>>,
     emitted |-> <<>>, calls |-> <<>>,
     requested |-> FALSE, flagged |-> FALSE, early |-> FALSE,
     stopDone |-> FALSE, entered |-> 0,
     observed |-> FALSE, passesAtObs |-> 0, obsPc |-> "", wreads |-> 0,
     handled |-> FALSE, iters |-> 0, callIters |-> <<>>,
     byStart |-> FALSE, stopAsked |-> FALSE,
     stopReturned |-> FALSE, lateProgress |-> FALSE]

\* ------------------------------------------------- script/hardware_monitor.py
\* HardwareMonitor.__init__ (lines 54-68): running, _monitor_thread, _lock
\* and _exception as the constructor leaves them. threads are the Thread
\* objects start() created, by creation order, each with the line of
\* _monitor_loop it stands at and the exception it caught; locked is _lock
\* held by the caller of stop(); an exception is named by the thread that
\* raised it. call is the caller's position, last the outcome of the last
\* start() or stop() call, owed the exception of a thread that ended in the
\* handler of _monitor_loop since the last start() and no stop() raised.
NewMonitor ==
    [running |-> FALSE, _monitor_thread |-> None, _exception |-> None,
     locked |-> FALSE, threads |-> <<>>, call |-> "idle",
     last |-> [call |-> "none", outcome |-> "none", owed |-> None, raised |-> None],
     owed |-> None]

\* threading.Thread(target=self._monitor_loop) (lines 104-109), started
NewThread == [pc |-> "while", caught |-> None, reported |-> FALSE]

\* the threads that are executing _monitor_loop
InMonitorLoop(m) == {t \in 1..Len(m.threads) : m.threads[t].pc # "ended"}

\* Thread.is_alive() of self._monitor_thread (line 122)
MonitorThreadAlive(m) ==
    m._monitor_thread # None /\ m.threads[m._monitor_thread].pc # "ended"

\* ------------------------------------------------------- script/lang_mgr.py
\* the language codes asked for, "en" being default_lang (line 16)
LangCodes == {"en", "it", "xx"}
default_lang == "en"

\* a language file: absent (line 74), holding JSON (lines 83-87), or holding
\* text json.load rejects (lines 88-91)
FileStates == {"good", "missing", "invalid"}
AllFilesGood == [c \in LangCodes |-> "good"]

\* LanguageManager.load_language (lines 56-101), development mode: the
\* manager after the call and the value returned. A missing or unreadable
\* file of another language than the default one makes the call load the
\* default language and return what that call returns.
RECURSIVE load_language(_, _)
load_language(l, lang_code) ==
    IF l.files[lang_code] = "good"
    THEN [self |-> [l EXCEPT !.translations = l.translations \cup {lang_code},
                             !.current_lang = lang_code],
          ret |-> TRUE]
    ELSE IF lang_code # default_lang THEN load_language(l, default_lang)
    ELSE [self |-> l, ret |-> FALSE]

\* LanguageManager.set_language (lines 170-186)
set_language(l, lang_code) ==
    IF lang_code = l.current_lang THEN [self |-> l, ret |-> TRUE]
    ELSE LET r == load_language(l, lang_code)
         IN  IF r.ret THEN [self |-> [r.self EXCEPT !.current_lang = lang_code],
                            ret |-> TRUE]
             ELSE [self |-> r.self, ret |-> FALSE]

\* LanguageManager.__init__ (lines 16-41) over the language files fs; last is
\* the last call made on the manager: its method, argument and return value
NewLanguageManager(fs) ==
    load_language([files |-> fs, translations |-> {}, current_lang |-> default_lang,
                   last |-> [op |-> "init", code |-> default_lang, ret |-> FALSE]],
                  default_lang).self

\* ------------------------------------------------------------------- state
VARIABLES
    bench,        \* PystoneBenchmark objects, by id
    workers,      \* BenchmarkWorker objects, by id (creation order)
    queue,        \* QThreadPool: runnables waiting for a thread
    active,       \* QThreadPool: runnables a pool thread is executing
    appWorker,    \* PystoneApp.worker (None or a worker id)
    appBenchmark, \* PystoneApp.benchmark
    current_run,  \* PystoneApp.current_run
    gui,          \* position of the GUI thread inside a handler
    pools,        \* QThreadPool objects, by id: the maximum thread count of each
    appPool,      \* PystoneApp.thread_pool
    store,        \* Record objects created outside a run, by address
    copied,       \* the copy() calls made on them: original, copy, fields then
    assigned,     \* the attribute assignments made on them: Record, field, value
    mon,          \* the HardwareMonitor object, its threads and its caller
    lang          \* the LanguageManager object and the language files it reads

vars == <<bench, workers, queue, active, appWorker, appBenchmark, current_run, gui,
          pools, appPool, store, copied, assigned, mon, lang>>

WorkerIds == 1..Len(workers)
GuiIdle == [pc |-> "idle", w |-> None]

\* PystoneApp.__init__ (lines 493-501)
Init ==
    /\ bench = <<NewBenchmark>>
    /\ workers = <<>>
    /\ queue = <<>>
    /\ active = {}
    /\ appWorker = None
    /\ appBenchmark = 1
    /\ current_run = 0
    /\ gui = GuiIdle
    /\ pools = <<MaxThreadCount>>
    /\ appPool = 1
    /\ store = << >>
    /\ copied = <<>>
    /\ assigned = <<>>
    /\ mon = NewMonitor
    /\ lang = NewLanguageManager(AllFilesGood)

\* the events of a kind in a worker's emission log
EventsOf(w, kinds) == SelectSeq(workers[w].emitted, LAMBDA e : e.kind \in kinds)
Terminals(w) == EventsOf(w, {"finished", "stopped", "error"})
Progress(w) == EventsOf(w, {"progress_updated"})
\* pc values at which run_benchmark has not returned yet
InDriver == {"warmup", "timed", "chunk", "chunkEmit", "kernel"}
BeforeReturn == {"queued", "start"} \cup InDriver


\* pc values of a worker whose run() has ended
Terminated == {"done", "retired"}

\* the next worker is created only after the previous run ended; the logs and
\* the bookkeeping of a run that ended are dropped then: of the object only
\* benchmark and is_running, the fields stop() still uses, are kept
Retire(wr) ==
    [NewWorker(0, wr.benchmark, wr.pool) EXCEPT !.is_running = wr.is_running,
                                              !.byStart = wr.byStart,
                                              !.pc = "retired"]

\* workers with w replaced by the record wr
SetWorker(w, wr) == [workers EXCEPT ![w] = wr]

\* should_stop of benchmark b becomes true: the workers whose driver is
\* running on b are marked as having had the flag raised under them
RaiseFlag(ws, b) ==
    [v \in DOMAIN ws |->
        IF ws[v].benchmark = b /\ ws[v].pc \in InDriver
        THEN [ws[v] EXCEPT !.flagged = TRUE] ELSE ws[v]]

\* ------------------------------------------------------- GUI thread actions
\* PystoneApp.run_benchmark(loops): a new worker on self.benchmark is stored
\* in self.worker and handed to self.thread_pool
AppRunBenchmark(loops) ==
    /\ gui.pc = "idle"
    /\ Len(workers) < MaxWorkers
    /\ \A v \in WorkerIds : workers[v].pc \in Terminated
    /\ workers' = Append([v \in WorkerIds |-> Retire(workers[v])],
                         NewWorker(loops, appBenchmark, appPool))
    /\ appWorker' = Len(workers) + 1
    /\ queue' = Append(queue, Len(workers) + 1)
    /\ UNCHANGED <<bench, active, appBenchmark, appPool, pools, store, copied, assigned, mon, lang,
                   current_run, gui>>

\* BenchmarkWorker.stop, line 89: self.is_running = False
StopSetIsRunning(wr) ==
    [wr EXCEPT !.is_running = FALSE,
               !.requested = wr.requested \/ wr.pc \notin Terminated,
               !.early = wr.early \/ (wr.pc \notin Terminated /\
                   Len(SelectSeq(wr.emitted, LAMBDA e : e.kind = "progress_updated")) <= 1)]

\* BenchmarkWorker.stop, line 90: self.benchmark.should_stop = True
StopSetShouldStop(w) ==
    /\ bench' = [bench EXCEPT ![workers[w].benchmark].should_stop = TRUE]
    /\ workers' = RaiseFlag([workers EXCEPT ![w].stopDone =
                                 workers[w].stopDone \/ workers[w].pc \in BeforeReturn,
                                             ![w].stopReturned =
                                 workers[w].stopReturned
                                 \/ workers[w].pc \notin Terminated],
                            workers[w].benchmark)

\* a holder of a worker reference (closeEvent, a client) calls worker.stop():
\* first statement
WorkerStopBegin(w) ==
    /\ gui.pc = "idle"
    /\ w \in WorkerIds
    /\ workers' = SetWorker(w, StopSetIsRunning(workers[w]))
    /\ gui' = [pc |-> "stop90", w |-> w]
    /\ UNCHANGED <<bench, queue, active, appWorker, appBenchmark, appPool, pools, store, copied, assigned, mon, lang, current_run>>

\* worker.stop(): second statement
WorkerStopEnd ==
    /\ gui.pc = "stop90"
    /\ StopSetShouldStop(gui.w)
    /\ gui' = GuiIdle
    /\ UNCHANGED <<queue, active, appWorker, appBenchmark, appPool, pools, store, copied, assigned, mon, lang, current_run>>

\* bookkeeping: stop_benchmark is invoked while the workers in `running` are
\* executing
NoteStopAsked(ws, running) ==
    [v \in DOMAIN ws |->
        IF v \in running THEN [ws[v] EXCEPT !.stopAsked = TRUE] ELSE ws[v]]

\* PystoneApp.stop_benchmark, lines 901-902: self.benchmark.should_stop = True
StopBenchmarkBegin ==
    /\ gui.pc = "idle"
    /\ bench' = [bench EXCEPT ![appBenchmark].should_stop = TRUE]
    /\ workers' = RaiseFlag(IF appWorker # None
                            THEN [NoteStopAsked(workers, active)
                                     EXCEPT ![appWorker].requested =
                                     workers[appWorker].requested
                                     \/ workers[appWorker].pc \notin Terminated]
                            ELSE NoteStopAsked(workers, active), appBenchmark)
    /\ gui' = IF appWorker # None THEN [pc |-> "sb89", w |-> appWorker] ELSE GuiIdle
    /\ UNCHANGED <<queue, active, appWorker, appBenchmark, appPool, pools, store, copied, assigned, mon, lang, current_run>>

\* stop_benchmark, line 906: self.worker.stop(), first statement
StopBenchmarkStop89 ==
    /\ gui.pc = "sb89"
    /\ workers' = SetWorker(gui.w, StopSetIsRunning(workers[gui.w]))
    /\ gui' = [gui EXCEPT !.pc = "sb90"]
    /\ UNCHANGED <<bench, queue, active, appWorker, appBenchmark, appPool, pools, store, copied, assigned, mon, lang, current_run>>

\* stop_benchmark, line 906 (second statement of stop) and line 907
StopBenchmarkStop90 ==
    /\ gui.pc = "sb90"
    /\ StopSetShouldStop(gui.w)
    /\ appWorker' = None
    /\ gui' = GuiIdle
    /\ UNCHANGED <<queue, active, appBenchmark, appPool, pools, store, copied, assigned, mon, lang, current_run>>

\* ---------------------------------------------------- worker thread actions
\* the thread limit of a pool: maxThreadCount, which a pool that was never
\* configured takes from the host (QThread.idealThreadCount)
PoolCap(p) == IF pools[p] = 0 THEN IdealThreadCount ELSE pools[p]

\* a thread of the worker's pool takes the pool's next runnable and enters
\* BenchmarkWorker.run
PoolStart(w) ==
    /\ \E k \in 1..Len(queue) :
          /\ queue[k] = w
          /\ \A j \in 1..(k - 1) : workers[queue[j]].pool # workers[w].pool
          /\ queue' = [j \in 1..(Len(queue) - 1) |->
                          IF j < k THEN queue[j] ELSE queue[j + 1]]
    /\ Cardinality({v \in active : workers[v].pool = workers[w].pool})
          < PoolCap(workers[w].pool)
    /\ active' = active \cup {w}
    /\ workers' = [workers EXCEPT ![w].pc = "start"]
    /\ UNCHANGED <<bench, appWorker, appBenchmark, appPool, pools, store, copied, assigned, mon, lang, current_run, gui>>

\* run_benchmark, lines 186-195
DriverEntry(w) ==
    /\ workers[w].pc = "start"
    /\ bench' = [bench EXCEPT ![workers[w].benchmark] =
                     RunBenchmarkEntry(bench[workers[w].benchmark], workers[w].loops)]
    /\ workers' = [workers EXCEPT ![w].pc = "warmup", ![w].i = 0]
    /\ UNCHANGED <<queue, active, appWorker, appBenchmark, appPool, pools, store, copied, assigned, mon, lang, current_run, gui>>

\* mutant: the cancelled driver returns (0.0, 0.0) instead of (None, None)
ObserveStopZero(wr, g) ==
    [wr EXCEPT !.pc = "finally", !.result = Result(0, ZeroStones),
               !.observed = TRUE, !.passesAtObs = g.passes, !.obsPc = wr.pc]

\* the driver reads should_stop at a chunk boundary and finds it true:
\* `return None, None`
ObserveStop(wr, g) ==
    [wr EXCEPT !.pc = "finally", !.result = NoResult,
               !.observed = TRUE, !.passesAtObs = g.passes, !.obsPc = wr.pc]

\* the driver enters a chunk (bookkeeping: chunks entered after stop() returned)
EnterChunk(wr) ==
    [wr EXCEPT !.entered = IF wr.stopDone THEN wr.entered + 1 ELSE wr.entered]

\* lines 196-201: one warm-up chunk
WarmupChunk(w) ==
    LET wr == workers[w]
        g == bench[wr.benchmark]
    IN /\ wr.pc = "warmup"
       /\ wr.i < wr.loops
       /\ workers' = SetWorker(w,
             IF g.should_stop THEN ObserveStop([wr EXCEPT !.wreads = wr.wreads + 1], g)
             ELSE [EnterChunk(wr) EXCEPT !.i = wr.i + WarmupChunkSize(wr.loops),
                                         !.wreads = wr.wreads + 1])
       /\ UNCHANGED <<bench, queue, active, appWorker, appBenchmark, appPool, pools, store, copied, assigned, mon, lang, current_run, gui>>

\* lines 203-217: end of the warm-up, nulltime, the two Records
DriverSetup(w, d) ==
    LET wr == workers[w]
    IN /\ wr.pc = "warmup"
       /\ wr.i >= wr.loops
       /\ bench' = [bench EXCEPT ![wr.benchmark] = CreateRecords(bench[wr.benchmark])]
       /\ workers' = SetWorker(w, [wr EXCEPT !.pc = "timed", !.i = 0, !.nulltime = d])
       /\ UNCHANGED <<queue, active, appWorker, appBenchmark, appPool, pools, store, copied, assigned, mon, lang, current_run, gui>>

\* lines 218-220: the check at the start of a timed chunk
TimedCheck(w) ==
    LET wr == workers[w]
        g == bench[wr.benchmark]
    IN /\ wr.pc = "timed"
       /\ wr.i < wr.loops
       /\ workers' = SetWorker(w,
             IF g.should_stop THEN ObserveStop(wr, g)
             ELSE [EnterChunk(wr) EXCEPT !.pc = "chunk"])
       /\ UNCHANGED <<bench, queue, active, appWorker, appBenchmark, appPool, pools, store, copied, assigned, mon, lang, current_run, gui>>

\* mutant: the callback is given j + 2 instead of j + 1
ChunkProgressArgsOff(i, loops) == <<Min(i + ChunkSize(loops), loops) + 1, loops>>

\* mutant: the callback is invoked at the first index of the chunk
ChunkProgressArgsFirst(i, loops) == <<i + 1, loops>>

\* the arguments of the progress callback at the end of the chunk starting at i
ChunkProgressArgs(i, loops) == <<Min(i + ChunkSize(loops), loops), loops>>

\* lines 223-229: the inner j loop of a chunk and its progress callback
ChunkProgress(w) ==
    LET wr == workers[w]
        args == ChunkProgressArgs(wr.i, wr.loops)
        end_chunk == Min(wr.i + ChunkSize(wr.loops), wr.loops)
    IN /\ wr.pc = "chunk"
       /\ bench' = [bench EXCEPT ![wr.benchmark].current_loops = end_chunk - 1]
       /\ workers' = SetWorker(w,
             [ProgressCallback([wr EXCEPT !.iters = wr.iters + (end_chunk - wr.i)],
                               args[1], args[2])
                 EXCEPT !.pc = "kernel"])
       /\ UNCHANGED <<queue, active, appWorker, appBenchmark, appPool, pools, store, copied, assigned, mon, lang, current_run, gui>>

\* mutant: the timed loop advances by one iteration, a kernel pass for each
KernelOutcomePerIteration(wr, fault) ==
    IF fault # <<>>
    THEN [wr EXCEPT !.pc = "finally", !.exc = fault, !.result = NoResult]
    ELSE [wr EXCEPT !.pc = "timed", !.i = wr.i + 1]

\* the worker after a kernel pass: back at the head of the timed loop, or
\* leaving the try block with the exception the pass raised
KernelOutcome(wr, fault) ==
    IF fault # <<>>
    THEN [wr EXCEPT !.pc = "finally", !.exc = fault, !.result = NoResult]
    ELSE [wr EXCEPT !.pc = "timed", !.i = wr.i + ChunkSize(wr.loops)]

\* lines 231-256: the kernel pass that ends a chunk, or the exception it raises
ChunkKernel(w) ==
    LET wr == workers[w]
        g == bench[wr.benchmark]
    IN /\ wr.pc = "kernel"
       /\ KernelTerminates(g)
       /\ bench' = IF KernelFault(g) # <<>> THEN bench
                   ELSE [bench EXCEPT ![wr.benchmark] = KernelPass(g)]
       /\ workers' = SetWorker(w, KernelOutcome(wr, KernelFault(g)))
       /\ UNCHANGED <<queue, active, appWorker, appBenchmark, appPool, pools, store, copied, assigned, mon, lang, current_run, gui>>

\* lines 258-265: benchtime and the throughput
DriverResult(loops, looptime, nulltime) ==
    Result(looptime - nulltime, LoopsPerBenchtime(loops, looptime - nulltime))

\* the timed loop is over: the driver returns its result
DriverReturn(w, d) ==
    LET wr == workers[w]
    IN /\ wr.pc = "timed"
       /\ wr.i >= wr.loops
       /\ workers' = SetWorker(w, [wr EXCEPT !.pc = "finally", !.looptime = d,
                                    !.result = DriverResult(wr.loops, d, wr.nulltime)])
       /\ UNCHANGED <<bench, queue, active, appWorker, appBenchmark, appPool, pools, store, copied, assigned, mon, lang, current_run, gui>>

\* mutant: the exception leaves run_benchmark without the finally block
DriverFaultSkipsFinally(w) ==
    LET wr == workers[w]
    IN /\ wr.pc \in InDriver
       /\ workers' = SetWorker(w, [wr EXCEPT !.pc = "returned", !.exc = <<"MemoryError">>,
                                             !.result = NoResult])
       /\ UNCHANGED <<bench, queue, active, appWorker, appBenchmark, appPool, pools, store, copied, assigned, mon, lang, current_run, gui>>

\* an exception (MemoryError) raised inside the try block of run_benchmark
DriverFault(w) ==
    LET wr == workers[w]
    IN /\ wr.pc \in InDriver
       /\ workers' = SetWorker(w, [wr EXCEPT !.pc = "finally", !.exc = <<"MemoryError">>,
                                             !.result = NoResult])
       /\ UNCHANGED <<bench, queue, active, appWorker, appBenchmark, appPool, pools, store, copied, assigned, mon, lang, current_run, gui>>

\* mutant: the finally block resets the progress to 0
FinalProgressArgsReset(loops) == <<0, loops>>

\* the arguments of the progress callback in the finally block
FinalProgressArgs(loops) == <<loops, loops>>

\* lines 267-270: the finally block of run_benchmark
DriverFinally(w) ==
    LET wr == workers[w]
        args == FinalProgressArgs(wr.loops)
    IN /\ wr.pc = "finally"
       /\ bench' = [bench EXCEPT ![wr.benchmark].running = FALSE]
       /\ workers' = SetWorker(w, [ProgressCallback(wr, args[1], args[2])
                                      EXCEPT !.pc = "returned"])
       /\ UNCHANGED <<queue, active, appWorker, appBenchmark, appPool, pools, store, copied, assigned, mon, lang, current_run, gui>>

\* mutant: the is_running test also runs after the except clause
WorkerSignalsBoth(wr) ==
    (IF wr.exc # <<>> THEN <<ErrorEvent(wr.exc[1])>> ELSE <<>>)
        \o TerminalSignals(wr.is_running, wr.result)

\* what BenchmarkWorker.run emits after run_benchmark: the except clause for
\* a pending exception, lines 73-79 otherwise
WorkerSignals(wr) ==
    IF wr.exc # <<>> THEN <<ErrorEvent(wr.exc[1])>>
    ELSE TerminalSignals(wr.is_running, wr.result)

\* lines 71-86: the end of BenchmarkWorker.run; the pool thread is free again
WorkerEnd(w) ==
    LET wr == workers[w]
    IN /\ wr.pc = "returned"
       /\ workers' = SetWorker(w, [wr EXCEPT !.pc = "done",
                                             !.emitted = wr.emitted \o WorkerSignals(wr)])
       /\ active' = active \ {w}
       /\ UNCHANGED <<bench, queue, appWorker, appBenchmark, appPool, pools, store, copied, assigned, mon, lang, current_run, gui>>

Next ==
    \/ \E loops \in LoopsValues : AppRunBenchmark(loops)
    \/ \E w \in WorkerIds : WorkerStopBegin(w)
    \/ WorkerStopEnd
    \/ StopBenchmarkBegin
    \/ StopBenchmarkStop89
    \/ StopBenchmarkStop90
    \/ \E w \in WorkerIds : PoolStart(w)
    \/ \E w \in WorkerIds : DriverEntry(w)
    \/ \E w \in WorkerIds : WarmupChunk(w)
    \/ \E w \in WorkerIds, d \in Ticks : DriverSetup(w, d)
    \/ \E w \in WorkerIds : TimedCheck(w)
    \/ \E w \in WorkerIds : ChunkProgress(w)
    \/ \E w \in WorkerIds : ChunkKernel(w)
    \/ \E w \in WorkerIds, d \in Ticks : DriverReturn(w, d)
    \/ \E w \in WorkerIds : DriverFault(w)
    \/ \E w \in WorkerIds : DriverFinally(w)
    \/ \E w \in WorkerIds : WorkerEnd(w)

Spec == Init /\ [][Next]_vars

\* ------------------------------------------------- one run, chunk by chunk
\* the state after PystoneApp.__init__ and PystoneApp.run_benchmark(loops)
DriverInit ==
    /\ bench = <<NewBenchmark>>
    /\ \E loops \in DriverLoops : workers = <<NewWorker(loops, 1, 1)>>
    /\ queue = <<1>>
    /\ active = {}
    /\ appWorker = 1
    /\ appBenchmark = 1
    /\ current_run = 0
    /\ gui = GuiIdle
    /\ pools = <<MaxThreadCount>>
    /\ appPool = 1
    /\ store = << >>
    /\ copied = <<>>
    /\ assigned = <<>>
    /\ mon = NewMonitor
    /\ lang = NewLanguageManager(AllFilesGood)

\* the steps of the run
DriverNext ==
    \/ \E w \in WorkerIds : PoolStart(w)
    \/ \E w \in WorkerIds : DriverEntry(w)
    \/ \E w \in WorkerIds : WarmupChunk(w)
    \/ \E w \in WorkerIds, d \in Ticks : DriverSetup(w, d)
    \/ \E w \in WorkerIds : TimedCheck(w)
    \/ \E w \in WorkerIds : ChunkProgress(w)
    \/ \E w \in WorkerIds : ChunkKernel(w)
    \/ \E w \in WorkerIds, d \in Ticks : DriverReturn(w, d)
    \/ \E w \in WorkerIds : DriverFinally(w)
    \/ \E w \in WorkerIds : WorkerEnd(w)

DriverSpec == DriverInit /\ [][DriverNext]_vars

\* some step of a run can be taken: a queued runnable whose pool has a free
\* thread, a kernel pass that comes to its end, or any other statement of run
\* and run_benchmark
DriverEnabled ==
    \E w \in WorkerIds :
        \/ workers[w].pc \in {"start", "warmup", "timed", "chunk", "finally", "returned"}
        \/ workers[w].pc = "kernel" /\ KernelTerminates(bench[workers[w].benchmark])
        \/ /\ workers[w].pc = "queued"
           /\ Cardinality({v \in active : workers[v].pool = workers[w].pool})
                 < PoolCap(workers[w].pool)

\* the pool thread that took the runnable keeps executing it: weak fairness
\* of the steps of the run, with their enabling condition written out
DriverFairSpec ==
    DriverInit /\ [][DriverNext]_vars
        /\ ([]<>~DriverEnabled \/ []<><<DriverNext>>_vars)

\* ------------------------------------ one run and a stop() on its worker
CancelInit == DriverInit /\ workers[1].loops \in CancelLoops

CancelNext ==
    \/ \E w \in WorkerIds : WorkerStopBegin(w)
    \/ WorkerStopEnd
    \/ DriverNext

CancelSpec == CancelInit /\ [][CancelNext]_vars


\* ------------------ one run, its progress callback statement by statement
\* the iteration counts of these runs
CallbackLoops == 1..MaxLoops

CallbackInit == DriverInit /\ workers[1].loops \in CallbackLoops

\* progress_callback, line 62: self.signals.progress_updated.emit(current, total)
CallbackEmit(wr, current, total) ==
    [wr EXCEPT !.emitted = Append(wr.emitted, ProgressEvent(current, total)),
               !.lateProgress = wr.lateProgress \/ wr.stopReturned]

\* progress_callback, lines 54-57: the callback is invoked and reads
\* is_running; `emit` and `skip` are the statements that follow a true and a
\* false value
CallbackEnter(wr, current, total, emit, skip) ==
    [wr EXCEPT !.calls = Append(wr.calls, <<current, total>>),
               !.callIters = Append(wr.callIters, wr.iters),
               !.pc = IF wr.is_running THEN emit ELSE skip]

\* lines 223-229: the inner j loop of a chunk, up to the callback's test of
\* is_running
ChunkCallbackEnter(w) ==
    LET wr == workers[w]
        args == ChunkProgressArgs(wr.i, wr.loops)
        end_chunk == Min(wr.i + ChunkSize(wr.loops), wr.loops)
    IN /\ wr.pc = "chunk"
       /\ bench' = [bench EXCEPT ![wr.benchmark].current_loops = end_chunk - 1]
       /\ workers' = SetWorker(w,
             CallbackEnter([wr EXCEPT !.iters = wr.iters + (end_chunk - wr.i)],
                           args[1], args[2], "chunkEmit", "kernel"))
       /\ UNCHANGED <<queue, active, appWorker, appBenchmark, appPool, pools, store, copied, assigned, mon, lang, current_run, gui>>

\* lines 59-63: the callback of a chunk emits progress_updated and returns
ChunkCallbackEmit(w) ==
    LET wr == workers[w]
        args == ChunkProgressArgs(wr.i, wr.loops)
    IN /\ wr.pc = "chunkEmit"
       /\ workers' = SetWorker(w, [CallbackEmit(wr, args[1], args[2])
                                      EXCEPT !.pc = "kernel"])
       /\ UNCHANGED <<bench, queue, active, appWorker, appBenchmark, appPool, pools, store, copied, assigned, mon, lang, current_run, gui>>

\* lines 267-270: the finally block, up to the callback's test of is_running
FinallyCallbackEnter(w) ==
    LET wr == workers[w]
        args == FinalProgressArgs(wr.loops)
    IN /\ wr.pc = "finally"
       /\ bench' = [bench EXCEPT ![wr.benchmark].running = FALSE]
       /\ workers' = SetWorker(w, CallbackEnter(wr, args[1], args[2],
                                                "finallyEmit", "returned"))
       /\ UNCHANGED <<queue, active, appWorker, appBenchmark, appPool, pools, store, copied, assigned, mon, lang, current_run, gui>>

\* lines 59-63: the callback of the finally block emits and returns
FinallyCallbackEmit(w) ==
    LET wr == workers[w]
        args == FinalProgressArgs(wr.loops)
    IN /\ wr.pc = "finallyEmit"
       /\ workers' = SetWorker(w, [CallbackEmit(wr, args[1], args[2])
                                      EXCEPT !.pc = "returned"])
       /\ UNCHANGED <<bench, queue, active, appWorker, appBenchmark, appPool, pools, store, copied, assigned, mon, lang, current_run, gui>>

CallbackNext ==
    \/ \E w \in WorkerIds : WorkerStopBegin(w)
    \/ WorkerStopEnd
    \/ \E w \in WorkerIds : PoolStart(w)
    \/ \E w \in WorkerIds : DriverEntry(w)
    \/ \E w \in WorkerIds : WarmupChunk(w)
    \/ \E w \in WorkerIds, d \in Ticks : DriverSetup(w, d)
    \/ \E w \in WorkerIds : TimedCheck(w)
    \/ \E w \in WorkerIds : ChunkCallbackEnter(w)
    \/ \E w \in WorkerIds : ChunkCallbackEmit(w)
    \/ \E w \in WorkerIds : ChunkKernel(w)
    \/ \E w \in WorkerIds, d \in Ticks : DriverReturn(w, d)
    \/ \E w \in WorkerIds : FinallyCallbackEnter(w)
    \/ \E w \in WorkerIds : FinallyCallbackEmit(w)
    \/ \E w \in WorkerIds : WorkerEnd(w)

CallbackSpec == CallbackInit /\ [][CallbackNext]_vars


\* --------------------------------- the application: start, submit and stop
\* iteration counts of the runs submitted here
AppLoops == {1}

\* setup_ui stores a QStatusBar object in self.statusBar (line 640), over the
\* method of QMainWindow: the call self.statusBar() raises TypeError
StatusBarCallable == FALSE

\* PystoneApp.run_next_benchmark(loops) on the workers ws and the queue q of
\* the pool: line 825 calls self.statusBar(), and only when that call returns
\* is a worker on self.benchmark created and handed to self.thread_pool
RunNextBenchmark(ws, q, loops) ==
    IF StatusBarCallable
    THEN [raised |-> FALSE,
          workers |-> Append(ws, [NewWorker(loops, appBenchmark, appPool)
                                     EXCEPT !.byStart = TRUE]),
          queue |-> Append(q, Len(ws) + 1)]
    ELSE [raised |-> TRUE, workers |-> ws, queue |-> q]

\* PystoneApp.start_benchmark after its call of run_next_benchmark (line
\* 557), whose TypeError the handler's except clause reports: the statements
\* after the try block (lines 571-596) run: a new PystoneBenchmark,
\* self.worker = None, a new QThreadPool on which setMaxThreadCount is not
\* called (line 583), current_run = 0, total_runs = 1
StartBenchmarkCall ==
    /\ Len(bench) <= MaxStarts
    /\ bench' = Append(bench, NewBenchmark)
    /\ appBenchmark' = Len(bench) + 1
    /\ appWorker' = None
    /\ pools' = Append(pools, 0)
    /\ appPool' = Len(pools) + 1
    /\ current_run' = 0

\* the 'Number of runs' a user can enter (runs_spin, 1 to 100)
RunsValues == 1..MaxRuns

\* the start button is clicked with n in 'Number of runs' and `loops` in
\* 'Iterations per run': PystoneApp.start_benchmark as a whole (n is stored
\* in total_runs at line 544, which line 588 overwrites)
StartBenchmark(n, loops) ==
    /\ gui.pc = "idle"
    /\ workers' = RunNextBenchmark(workers, queue, loops).workers
    /\ queue' = RunNextBenchmark(workers, queue, loops).queue
    /\ StartBenchmarkCall
    /\ UNCHANGED <<active, gui, store, copied, assigned, mon, lang>>

\* PystoneApp.run_benchmark(loops), called at any time: the signals of the
\* previous self.worker are disconnected, a new worker on self.benchmark is
\* stored in self.worker and handed to self.thread_pool
RunBenchmarkCall(loops) ==
    /\ gui.pc = "idle"
    /\ Len(workers) < MaxWorkers
    /\ workers' = Append([v \in WorkerIds |->
                             IF v = appWorker /\ workers[v].pc \in Terminated
                             THEN Retire(workers[v]) ELSE workers[v]],
                         NewWorker(loops, appBenchmark, appPool))
    /\ appWorker' = Len(workers) + 1
    /\ queue' = Append(queue, Len(workers) + 1)
    /\ UNCHANGED <<bench, active, appBenchmark, appPool, pools, store, copied, assigned, mon, lang,
                   current_run, gui>>

\* PystoneApp.benchmark_completed, the slot of a worker's finished signal
\* (connected at line 865), run by the GUI thread: current_run += 1, then
\* start_benchmark() while current_run <= total_runs
BenchmarkCompleted(w) ==
    /\ gui.pc = "idle"
    /\ workers[w].pc = "done"
    /\ ~workers[w].handled
    /\ \E k \in DOMAIN workers[w].emitted : workers[w].emitted[k].kind = "finished"
    /\ workers' = [workers EXCEPT ![w].handled = TRUE]
    /\ IF current_run + 1 <= total_runs
       THEN StartBenchmarkCall
       ELSE /\ current_run' = current_run + 1
            /\ UNCHANGED <<bench, appBenchmark, appWorker, pools, appPool>>
    /\ UNCHANGED <<queue, active, gui, store, copied, assigned, mon, lang>>

AppNext ==
    \/ \E n \in RunsValues, loops \in AppLoops : StartBenchmark(n, loops)
    \/ \E loops \in AppLoops : RunBenchmarkCall(loops)
    \/ \E w \in WorkerIds : BenchmarkCompleted(w)
    \/ StopBenchmarkBegin
    \/ StopBenchmarkStop89
    \/ StopBenchmarkStop90
    \/ DriverNext

AppSpec == Init /\ [][AppNext]_vars

\* --------------------------- the application, one run submitted at a time
SessionNext ==
    \/ \E n \in RunsValues, loops \in AppLoops : StartBenchmark(n, loops)
    \/ \E loops \in AppLoops : AppRunBenchmark(loops)
    \/ \E w \in WorkerIds : BenchmarkCompleted(w)
    \/ StopBenchmarkBegin
    \/ StopBenchmarkStop89
    \/ StopBenchmarkStop90
    \/ DriverNext

SessionSpec == Init /\ [][SessionNext]_vars


\* ---------------------------------------------- Records, copy() and fields
\* the values an attribute of a Record is given
FieldValues(f, addrs) ==
    CASE f = "PtrComp" -> {None} \cup addrs
      [] f = "Discr" -> {0, Ident1}
      [] f = "EnumComp" -> {0, Ident3}
      [] f = "IntComp" -> {0, 5}
      [] f = "StringComp" -> {StrDefault, StrSome}
Fields == {"PtrComp", "Discr", "EnumComp", "IntComp", "StringComp"}

\* two Records exist: Record() at address 1 and, at address 2,
\* Record(PtrComp, Discr, EnumComp, IntComp, StringComp) with any arguments
CopyInit ==
    /\ bench = <<NewBenchmark>>
    /\ workers = <<>>
    /\ queue = <<>>
    /\ active = {}
    /\ appWorker = None
    /\ appBenchmark = 1
    /\ current_run = 0
    /\ gui = GuiIdle
    /\ pools = <<MaxThreadCount>>
    /\ appPool = 1
    /\ \E p \in FieldValues("PtrComp", {1}), d \in FieldValues("Discr", {}),
          e \in FieldValues("EnumComp", {}), i \in FieldValues("IntComp", {}),
          t \in FieldValues("StringComp", {}) :
          store = HeapPut(HeapPut(<< >>, 1, NewRecord), 2,
                          [PtrComp |-> p, Discr |-> d, EnumComp |-> e, IntComp |-> i,
                           StringComp |-> t])
    /\ copied = <<>>
    /\ assigned = <<>>
    /\ mon = NewMonitor
    /\ lang = NewLanguageManager(AllFilesGood)

\* c = r.copy() on the Record at address a
RecordCopyCall(a) ==
    /\ Cardinality(DOMAIN store) < MaxRecords
    /\ store' = HeapPut(store, FreshAddr(store), RecordCopy(store[a]))
    /\ copied' = Append(copied, [orig |-> a, copy |-> FreshAddr(store),
                                 origThen |-> store[a], copyAssigned |-> FALSE,
                                 origBefore |-> store[a]])
    /\ UNCHANGED <<bench, workers, queue, active, appWorker, appBenchmark, current_run,
                   gui, pools, appPool, assigned, mon, lang>>

\* the copy() log after an assignment to the Record at a: for a copy, the
\* fields its original had right before are noted; an assignment to the
\* original itself ends that observation
NoteAssign(e, a) ==
    IF a = e.copy THEN [e EXCEPT !.copyAssigned = TRUE, !.origBefore = store[e.orig]]
    ELSE IF a = e.orig THEN [e EXCEPT !.copyAssigned = FALSE]
    ELSE e

\* r.<f> = v on the Record at address a, with a value the field does not hold
RecordAssign(a, f, v) ==
    /\ Len(assigned) < MaxAssigns
    /\ store[a][f] # v
    /\ store' = [store EXCEPT ![a][f] = v]
    /\ copied' = [k \in 1..Len(copied) |-> NoteAssign(copied[k], a)]
    /\ assigned' = Append(assigned, <<a, f, v>>)
    /\ UNCHANGED <<bench, workers, queue, active, appWorker, appBenchmark, current_run,
                   gui, pools, appPool, mon, lang>>

CopyNext ==
    \/ \E a \in DOMAIN store : RecordCopyCall(a)
    \/ \E a \in DOMAIN store, f \in Fields :
          \E v \in FieldValues(f, DOMAIN store) : RecordAssign(a, f, v)

CopySpec == CopyInit /\ [][CopyNext]_vars

\* --------------------------------------- HardwareMonitor: start() and stop()
\* the state of the application, which no call on the monitor touches
appVars == <<bench, workers, queue, active, appWorker, appBenchmark, current_run, gui,
             pools, appPool, store, copied, assigned, lang>>

\* the states of a monitoring thread in which it can stay longer than the
\* 2.0 seconds of the join in stop(): waiting for _lock, which the caller of
\* stop() holds (line 171), and asleep for an interval above 2.0 (line 81)
JoinTimesOutAt == {"append", "sleep"}

\* HardwareMonitor.start (lines 87-111), the whole call under _lock
MonitorStart ==
    /\ mon.call = "idle"
    /\ ~mon.locked
    /\ mon.running \/ Len(mon.threads) < MaxMonitorThreads
    /\ mon' = IF mon.running
              THEN [mon EXCEPT !.last = [call |-> "start", outcome |-> "rejected",
                                         owed |-> None, raised |-> None]]
              ELSE [mon EXCEPT !.running = TRUE,
                               !._exception = None,
                               !.threads = Append(mon.threads, NewThread),
                               !._monitor_thread = Len(mon.threads) + 1,
                               !.owed = None,
                               !.last = [call |-> "start", outcome |-> "started",
                                         owed |-> None, raised |-> None]]
    /\ UNCHANGED appVars

\* HardwareMonitor.stop, lines 113-119: _lock taken, the test of running,
\* running = False; the caller then stands at the join with _lock held
MonitorStopBegin ==
    /\ mon.call = "idle"
    /\ ~mon.locked
    /\ mon' = IF ~mon.running
              THEN [mon EXCEPT !.owed = None,
                               !.last = [call |-> "stop", outcome |-> "idle",
                                         owed |-> mon.owed, raised |-> None]]
              ELSE [mon EXCEPT !.running = FALSE, !.locked = TRUE, !.call = "join"]
    /\ UNCHANGED appVars

\* HardwareMonitor.stop, lines 121-130: the join is over, because the thread
\* has ended or because the timeout has passed, then the stored exception is
\* raised if there is one, and _lock is released either way
MonitorStopJoin ==
    /\ mon.call = "join"
    /\ MonitorThreadAlive(mon) => mon.threads[mon._monitor_thread].pc \in JoinTimesOutAt
    /\ mon' = [mon EXCEPT
                 !.locked = FALSE,
                 !.call = "idle",
                 !.owed = None,
                 !.threads = [t \in 1..Len(mon.threads) |->
                                 IF t = mon._exception
                                 THEN [mon.threads[t] EXCEPT !.reported = TRUE]
                                 ELSE mon.threads[t]],
                 !.last = [call |-> "stop",
                           outcome |-> IF mon._exception # None THEN "raised"
                                       ELSE "stopped",
                           owed |-> mon.owed, raised |-> mon._exception]]
    /\ UNCHANGED appVars

\* _monitor_loop, line 73: the test of running; a false one ends the thread
MonitorLoopTest(t) ==
    /\ mon.threads[t].pc = "while"
    /\ mon' = [mon EXCEPT !.threads[t].pc = IF mon.running THEN "capture" ELSE "ended"]
    /\ UNCHANGED appVars

\* capture_metrics, lines 134-169: nothing is captured once running is false;
\* else the psutil readings are taken, and any of them can raise
MonitorCapture(t, raises) ==
    /\ mon.threads[t].pc = "capture"
    /\ mon' = IF ~mon.running THEN [mon EXCEPT !.threads[t].pc = "sleep"]
              ELSE IF raises THEN [mon EXCEPT !.threads[t].pc = "handler",
                                              !.threads[t].caught = t]
              ELSE [mon EXCEPT !.threads[t].pc = "append"]
    /\ UNCHANGED appVars

\* capture_metrics, lines 171-172: the reading is appended under _lock
MonitorAppend(t) ==
    /\ mon.threads[t].pc = "append"
    /\ ~mon.locked
    /\ mon' = [mon EXCEPT !.threads[t].pc = "sleep"]
    /\ UNCHANGED appVars

\* _monitor_loop, lines 77-81: the sleep until the next reading
MonitorSleep(t) ==
    /\ mon.threads[t].pc = "sleep"
    /\ mon' = [mon EXCEPT !.threads[t].pc = "while"]
    /\ UNCHANGED appVars

\* _monitor_loop, line 83: the handler stores the exception
MonitorHandlerStore(t) ==
    /\ mon.threads[t].pc = "handler"
    /\ mon' = [mon EXCEPT !._exception = mon.threads[t].caught,
                          !.threads[t].pc = "handler85"]
    /\ UNCHANGED appVars

\* _monitor_loop, line 85: running = False, and the thread ends
MonitorHandlerEnd(t) ==
    /\ mon.threads[t].pc = "handler85"
    /\ mon' = [mon EXCEPT !.running = FALSE,
                          !.threads[t].pc = "ended",
                          !.owed = IF mon.threads[t].reported THEN mon.owed
                                   ELSE mon.threads[t].caught]
    /\ UNCHANGED appVars

MonitorNext ==
    \/ MonitorStart
    \/ MonitorStopBegin
    \/ MonitorStopJoin
    \/ \E t \in InMonitorLoop(mon) : MonitorLoopTest(t)
    \/ \E t \in InMonitorLoop(mon), raises \in BOOLEAN : MonitorCapture(t, raises)
    \/ \E t \in InMonitorLoop(mon) : MonitorAppend(t)
    \/ \E t \in InMonitorLoop(mon) : MonitorSleep(t)
    \/ \E t \in InMonitorLoop(mon) : MonitorHandlerStore(t)
    \/ \E t \in InMonitorLoop(mon) : MonitorHandlerEnd(t)

MonitorSpec == Init /\ [][MonitorNext]_vars

\* ------------------------------ LanguageManager: load_language, set_language
\* a manager constructed over any state of the language files
LangInit ==
    /\ bench = <<NewBenchmark>>
    /\ workers = <<>>
    /\ queue = <<>>
    /\ active = {}
    /\ appWorker = None
    /\ appBenchmark = 1
    /\ current_run = 0
    /\ gui = GuiIdle
    /\ pools = <<MaxThreadCount>>
    /\ appPool = 1
    /\ store = << >>
    /\ copied = <<>>
    /\ assigned = <<>>
    /\ mon = NewMonitor
    /\ \E fs \in [LangCodes -> FileStates] : lang = NewLanguageManager(fs)

\* a call of load_language(lang_code) on the manager
LoadLanguageCall(lang_code) ==
    /\ LET r == load_language(lang, lang_code)
       IN  lang' = [r.self EXCEPT !.last = [op |-> "load_language", code |-> lang_code,
                                            ret |-> r.ret]]
    /\ UNCHANGED <<bench, workers, queue, active, appWorker, appBenchmark, current_run,
                   gui, pools, appPool, store, copied, assigned, mon>>

\* a call of set_language(lang_code) on the manager
SetLanguageCall(lang_code) ==
    /\ LET r == set_language(lang, lang_code)
       IN  lang' = [r.self EXCEPT !.last = [op |-> "set_language", code |-> lang_code,
                                            ret |-> r.ret]]
    /\ UNCHANGED <<bench, workers, queue, active, appWorker, appBenchmark, current_run,
                   gui, pools, appPool, store, copied, assigned, mon>>

LangNext ==
    \/ \E c \in LangCodes : LoadLanguageCall(c)
    \/ \E c \in LangCodes : SetLanguageCall(c)

LangSpec == LangInit /\ [][LangNext]_vars

\* ================================================================== claims
\* the workers whose run is in progress or has just ended
Live == {w \in WorkerIds : workers[w].pc # "retired"}
\* the `current` values of a sequence of progress events
Curs(events) == [k \in 1..Len(events) |-> events[k].cur]
\* the `current` values of a sequence of callback invocations
CallCurs(calls) == [k \in 1..Len(calls) |-> calls[k][1]]
NonDecreasing(q) == \A k \in 1..Len(q) : k > 1 => q[k - 1] <= q[k]
StrictlyIncreasing(q) == \A k \in 1..Len(q) : k > 1 => q[k - 1] < q[k]
IsPrefix(p, q) == Len(p) <= Len(q) /\ \A k \in 1..Len(p) : p[k] = q[k]
TerminalKinds == {"finished", "stopped", "error"}
HasEvent(w, kind) == \E k \in 1..Len(workers[w].emitted) : workers[w].emitted[k].kind = kind

\* C1: every run that ended has emitted exactly one terminal notification
\* (finished, stopped or error), and it is the last notification of the run,
\* after every progress_updated.
C1_ExactlyOneTerminalLast ==
    \A w \in Live : workers[w].pc = "done" =>
        LET em == workers[w].emitted
        IN /\ Len(Terminals(w)) = 1
           /\ em[Len(em)].kind \in TerminalKinds

\* C2: when stop() sets is_running to false before the run has emitted a
\* second progress notification (none yet, or only the first one), the run
\* never emits finished, and unless the driver raises an exception it ends
\* with exactly one stopped notification.
C2_EarlyStopCancels ==
    \A w \in Live : workers[w].early =>
        /\ ~HasEvent(w, "finished")
        /\ (workers[w].pc = "done" /\ workers[w].exc = <<>>)
              => Terminals(w) = <<StoppedEvent>>

\* C2 witness: stop() right after the first progress notification of a run of
\* 2 iterations, which then ended with stopped
C2_Witness ==
    \E w \in Live :
        /\ workers[w].early /\ workers[w].pc = "done" /\ workers[w].loops = 2
        /\ Curs(Progress(w)) = <<1>>
        /\ Terminals(w) = <<StoppedEvent>>

\* C3: once stop() has returned for a worker whose driver has not returned,
\* the driver enters at most one further chunk (warm-up or timed).
C3_StopSeenAtNextChunk ==
    \A w \in Live : workers[w].entered <= 1

\* C4: stop() on a worker whose run has ended changes no other run: a run on
\* which no cancellation was requested (neither stop() on its worker nor
\* stop_benchmark while it was the application's worker) and which raised no
\* exception ends with a finished notification.
C4_UnrequestedRunFinishes ==
    \A w \in Live :
        (workers[w].pc = "done" /\ ~workers[w].requested /\ workers[w].exc = <<>>)
            => HasEvent(w, "finished")

C6_ProgressBounded ==
    \A w \in Live : workers[w].loops >= 1 =>
        LET p == Progress(w)
        IN /\ \A k \in 1..Len(p) : p[k].total = workers[w].loops /\ p[k].cur <= p[k].total
           /\ NonDecreasing(Curs(p))

\* C6 witness: a run of 2 iterations stopped after its second progress event
C6_Witness ==
    \E w \in Live :
        /\ workers[w].pc = "done" /\ workers[w].loops = 2
        /\ Len(Progress(w)) = 2 /\ ~workers[w].is_running

\* C7: a run with loops >= 1 on which no cancellation was requested, under
\* which should_stop was never raised and which raised no exception ends with
\* exactly one notification, finished, carrying benchtime = looptime - nulltime
\* and the throughput loops / benchtime when benchtime > 0, 0 otherwise.
C7_CompletedRunThroughput ==
    \A w \in Live :
        (/\ workers[w].pc = "done" /\ workers[w].loops >= 1
         /\ ~workers[w].requested /\ ~workers[w].flagged /\ workers[w].exc = <<>>)
        => LET elapsed == workers[w].looptime - workers[w].nulltime
           IN Terminals(w) = <<FinishedEvent(elapsed,
                                 IF elapsed > 0
                                 THEN [num |-> workers[w].loops, den |-> elapsed]
                                 ELSE [num |-> 0, den |-> 1])>>

\* C7 witness: a finished run whose elapsed time is 0 (warm-up as long as the
\* timed loop), reported with throughput 0
C7_Witness ==
    \E w \in Live :
        /\ workers[w].pc = "done" /\ workers[w].loops >= 1
        /\ ~workers[w].requested /\ ~workers[w].flagged /\ workers[w].exc = <<>>
        /\ workers[w].looptime = 1 /\ workers[w].nulltime = 1
        /\ HasEvent(w, "finished")

\* C8: a run started with loops < 1 is rejected before anything happens: no
\* progress callback, no progress or finished notification, no Record created.
C8_InvalidLoopsRejected ==
    \A w \in Live : workers[w].loops < 1 =>
        /\ workers[w].calls = <<>>
        /\ ~HasEvent(w, "progress_updated") /\ ~HasEvent(w, "finished")
        /\ workers[w].pc \in {"timed", "finally", "returned"}
              => bench[workers[w].benchmark].nrec = 0

\* C9: when an exception is raised inside run_benchmark, the driver's running
\* flag is false once the finally block has run, and the worker ends with
\* exactly one terminal notification, error, carrying a message; it emits
\* neither finished nor stopped.
C9_FaultYieldsOneError ==
    \A w \in Live : workers[w].exc # <<>> =>
        /\ ~HasEvent(w, "finished") /\ ~HasEvent(w, "stopped")
        /\ workers[w].pc = "returned" => ~bench[workers[w].benchmark].running
        /\ workers[w].pc = "done" =>
              /\ Len(Terminals(w)) = 1
              /\ Terminals(w)[1].kind = "error"
              /\ Terminals(w)[1].msg = <<"Error in benchmark: ", "MemoryError">>

\* C9 witness: a run that raised after stop() had been called on its worker
\* and ended with error
C9_Witness ==
    \E w \in Live :
        /\ workers[w].exc # <<>> /\ workers[w].pc = "done"
        /\ ~workers[w].is_running /\ HasEvent(w, "error")

\* C10: once the driver has read should_stop as true at a chunk boundary, its
\* result is (None, None), no finished notification is emitted and no further
\* kernel pass is executed.
C10_ObservedStopReturnsNone ==
    \A w \in Live : workers[w].observed =>
        /\ workers[w].result.none
        /\ ~HasEvent(w, "finished")
        /\ bench[workers[w].benchmark].passes = workers[w].passesAtObs

\* C10 witness: the flag observed at the start of the second timed chunk
C10_Witness ==
    \E w \in Live :
        /\ workers[w].observed /\ workers[w].pc = "done"
        /\ workers[w].passesAtObs = 1 /\ workers[w].loops = 2

Globals(g) ==
    [IntGlob |-> g.IntGlob, BoolGlob |-> g.BoolGlob, Char1Glob |-> g.Char1Glob,
     Char2Glob |-> g.Char2Glob, Array1Glob |-> g.Array1Glob,
     Array2Glob |-> g.Array2Glob, PtrGlb |-> g.PtrGlb, PtrGlbNext |-> g.PtrGlbNext,
     heap |-> g.heap]
RECURSIVE Passes(_, _)
Passes(g, k) == IF k = 0 THEN g ELSE KernelPass(Passes(g, k - 1))
\* the first run of a new benchmark object, at the start of its timed loop
\* (k = 0) or after its k-th kernel pass
FirstRun(loops, k) == Passes(CreateRecords(RunBenchmarkEntry(NewBenchmark, loops)), k)

\* C12: at the start of the timed loop and after each kernel pass k of a run,
\* the global scalars, both arrays and the Records are those of the first run
\* of a new benchmark object with the same loops, whatever the runs before it
\* on the same object did.
C12_NoLeakage ==
    \A w \in Live : workers[w].pc = "timed" =>
        LET g == bench[workers[w].benchmark]
        IN Globals(g) = Globals(FirstRun(workers[w].loops, g.passes))

\* C12 witness: the second run on an object whose globals the first run had
\* changed, after its second kernel pass
C12_Witness ==
    \E w \in Live :
        /\ w > 1 /\ workers[w].pc = "timed"
        /\ bench[workers[w].benchmark].residue
        /\ bench[workers[w].benchmark].passes = 2

C14_OnePassPerIteration ==
    \A w \in Live : (workers[w].pc = "done" /\ HasEvent(w, "finished")) =>
        bench[workers[w].benchmark].passes = workers[w].loops

\* the worker is in the timed loop of its run
InTimedLoop(w) == workers[w].pc \in {"timed", "chunk", "kernel"}
\* the Records of benchmark object g that exist
Records(g) == DOMAIN g.heap

\* C15 (as stated): during the timed loop no Record is allocated: the Records
\* that exist are exactly PtrGlb and PtrGlbNext, and the run has allocated 2.
C15_NoAllocationInLoop ==
    \A w \in Live : InTimedLoop(w) =>
        LET g == bench[workers[w].benchmark]
        IN g.nrec = 2 /\ Records(g) = {g.PtrGlb, g.PtrGlbNext}

\* C15 (amended): every kernel pass allocates exactly one Record, so after k
\* passes the run has allocated 2 + k; the Records still referenced at a pass
\* boundary are PtrGlb, PtrGlbNext and, after the first pass, the copy that
\* PtrGlb.PtrComp refers to: at most 3, whatever the number of passes.
C15_LiveRecordsBounded ==
    \A w \in Live : workers[w].pc = "timed" =>
        LET g == bench[workers[w].benchmark]
        IN /\ g.nrec = 2 + g.passes
           /\ Records(g) = {g.PtrGlb, g.PtrGlbNext, g.heap[g.PtrGlb].PtrComp}
           /\ Cardinality(Records(g)) = IF g.passes = 0 THEN 2 ELSE 3

\* C15 witness: the default run after its 100th kernel pass: 102 Records were
\* allocated and 3 exist
C15_Witness ==
    \E w \in Live :
        /\ workers[w].pc = "timed" /\ workers[w].loops = LOOPS
        /\ bench[workers[w].benchmark].passes = 100
        /\ bench[workers[w].benchmark].nrec = 102
        /\ Cardinality(Records(bench[workers[w].benchmark])) = 3

\* C17: for every copy() made, the copy is a Record other than the original
\* and one that did not exist before; right after the call (no assignment to
\* either yet) its Discr, EnumComp, IntComp and StringComp equal the
\* original's and its PtrComp refers to the same Record as the original's;
\* and after an assignment to a field of the copy the original has the fields
\* it had before that assignment.
C17_CopyShallowAndIndependent ==
    \A k \in 1..Len(copied) :
        LET e == copied[k]
            touched == \E j \in 1..Len(assigned) : assigned[j][1] \in {e.orig, e.copy}
        IN /\ e.copy # e.orig /\ e.copy \in DOMAIN store
           /\ ~touched =>
                 /\ store[e.copy].Discr = store[e.orig].Discr
                 /\ store[e.copy].EnumComp = store[e.orig].EnumComp
                 /\ store[e.copy].IntComp = store[e.orig].IntComp
                 /\ store[e.copy].StringComp = store[e.orig].StringComp
                 /\ store[e.copy].PtrComp = store[e.orig].PtrComp
                 /\ store[e.orig] = e.origThen
           /\ e.copyAssigned => store[e.orig] = e.origBefore

\* C17 witness: a Record whose PtrComp refers to another Record and whose
\* EnumComp and IntComp differ was copied, and a field of the copy was then
\* assigned
C17_Witness ==
    \E k \in 1..Len(copied) :
        /\ copied[k].copyAssigned
        /\ copied[k].origThen.PtrComp # None
        /\ copied[k].origThen.EnumComp # copied[k].origThen.IntComp
        /\ store[copied[k].copy] # store[copied[k].orig]

\* C18: at every kernel-pass boundary the chain from PtrGlb is acyclic and of
\* depth 2: PtrGlb.PtrComp is a Record other than PtrGlb whose PtrComp is None.
C18_ChainDepthTwo ==
    \A w \in Live : workers[w].pc = "timed" =>
        LET g == bench[workers[w].benchmark]
        IN /\ g.PtrGlb # None
           /\ g.heap[g.PtrGlb].PtrComp \in Records(g) \ {g.PtrGlb}
           /\ g.heap[g.heap[g.PtrGlb].PtrComp].PtrComp = None

\* C18 witness: after the second pass PtrGlb.PtrComp is the copy made by that
\* pass, not PtrGlbNext
C18_Witness ==
    \E w \in Live :
        /\ workers[w].pc = "timed"
        /\ bench[workers[w].benchmark].passes = 2
        /\ bench[workers[w].benchmark].heap[bench[workers[w].benchmark].PtrGlb].PtrComp
              # bench[workers[w].benchmark].PtrGlbNext

\* C19: no kernel pass raises: the run has no pending exception, and when a
\* pass is about to start every subscript of Proc8 lies in 0..50, PtrGlb is a
\* Record, Proc2 assigns EnumLoc before reading it (Char1Glob is 'A' after
\* Proc5) and Func2 leaves its loop with CharLoc assigned.
C19_NoKernelFault ==
    \A w \in Live :
        /\ workers[w].exc = <<>>
        /\ workers[w].pc = "kernel" =>
              LET g == bench[workers[w].benchmark]
              IN /\ KernelFault(g) = <<>>
                 /\ Proc8Indices(3) \subseteq 0..(ArrayLen - 1)
                 /\ g.PtrGlb \in Records(g)
                 /\ Proc5(g).Char1Glob = ChA
                 /\ Func2(String1Loc, String2Loc).ok

\* C19 witness: the default run of 50000 iterations ended with finished after
\* its kernel passes
C19_Witness ==
    \E w \in Live :
        /\ workers[w].pc = "done" /\ workers[w].loops = LOOPS
        /\ HasEvent(w, "finished") /\ bench[workers[w].benchmark].passes > 0

\* the number of chunks of `size` iterations that cover `loops` iterations
Chunks(loops, size) == (loops + size - 1) \div size

\* C20: the warm-up covers loops iterations in chunks of
\* min(1000, max(1, loops // 100)) and reads should_stop once per chunk: a
\* warm-up that was not cancelled has made one read per chunk; when a read
\* finds the flag true the driver leaves: no Record is ever created and no
\* kernel pass executes.
C20_WarmupChunksAndCancel ==
    \A w \in Live :
        LET wr == workers[w]
            g == bench[wr.benchmark]
            size == IF wr.loops \div 100 >= 1000 THEN 1000
                    ELSE IF wr.loops \div 100 >= 1 THEN wr.loops \div 100 ELSE 1
        IN /\ (wr.pc = "warmup") => (wr.i = wr.wreads * size)
           /\ (wr.pc \notin {"queued", "start", "warmup"} /\ wr.obsPc # "warmup")
                 => wr.wreads = Chunks(wr.loops, size)
           /\ wr.obsPc = "warmup" =>
                 /\ wr.wreads <= Chunks(wr.loops, size)
                 /\ wr.pc \in {"finally", "returned", "done"}
                 /\ g.nrec = 0 /\ g.passes = 0
                 /\ g.PtrGlb = None /\ g.PtrGlbNext = None

\* C20 witness: a warm-up in chunks of 1000 cancelled at its third read
C20_Witness ==
    \E w \in Live :
        /\ workers[w].obsPc = "warmup" /\ workers[w].pc = "done"
        /\ workers[w].loops = HugeLoops /\ workers[w].wreads = 3
        /\ workers[w].i = 2000

\* C16: the finished notification of a run with loops = 1 that was not
\* stopped carries an elapsed time >= 0, for every warm-up duration and every
\* timed-loop duration.
C16_ElapsedNonNegative ==
    \A w \in Live :
        (workers[w].loops = 1 /\ ~workers[w].requested /\ ~workers[w].flagged) =>
            \A k \in 1..Len(workers[w].emitted) :
                workers[w].emitted[k].kind = "finished"
                    => workers[w].emitted[k].benchtime >= 0

\* C21: in the timed loop one kernel pass is executed per chunk, after the
\* chunk's last loop index: when the pass is due current_loops is the last
\* index of the chunk and one pass per earlier chunk has been done; a run that
\* completes has executed ceil(loops / max(1, loops // 100)) passes, which is
\* one pass for loops = 1.
C21_OnePassPerChunk ==
    \A w \in Live :
        LET wr == workers[w]
            g == bench[wr.benchmark]
            size == Max(1, wr.loops \div 100)
        IN /\ wr.pc \in {"timed", "chunk", "kernel"} /\ wr.exc = <<>>
              => g.passes = Chunks(wr.i, size)
           /\ wr.pc = "kernel"
              => g.current_loops = Min(wr.i + size, wr.loops) - 1
           /\ (wr.pc = "done" /\ HasEvent(w, "finished"))
              => /\ g.passes = Chunks(wr.loops, size)
                 /\ (wr.loops = 1 => g.passes = 1)

\* C21 witness: completed runs of one iteration and of chunks of two
\* iterations, the last chunk a short one
C21_Witness ==
    \E w \in Live :
        /\ workers[w].pc = "done" /\ HasEvent(w, "finished")
        /\ workers[w].loops = BigLoops + 1
        /\ bench[workers[w].benchmark].passes = (BigLoops \div 2) + 1

\* the iteration counts at which a chunk of the timed loop ends
IsChunkBoundary(n, loops) ==
    n = 0 \/ n = loops \/ n % Max(1, loops \div 100) = 0

\* C22: every invocation of the progress callback happens at a chunk boundary
\* and its `current` argument equals the number of loop iterations the driver
\* has completed at that moment, in every outcome, a cancelled run included.
C22_CurrentIsCompleted ==
    \A w \in Live : \A k \in 1..Len(workers[w].calls) :
        /\ IsChunkBoundary(workers[w].callIters[k], workers[w].loops)
        /\ workers[w].calls[k][1] = workers[w].callIters[k]

\* C22 (amended): every invocation of the progress callback happens at a
\* chunk boundary; an invocation from the timed loop has as `current` the
\* number of loop iterations completed at that moment; the last invocation of
\* a run, from the finally block, has current = loops, which is the number of
\* iterations completed when the timed loop ran to its end and more than that
\* number when a read of should_stop ended the run.
C22_CurrentAtChunkEnd ==
    \A w \in Live :
        LET wr == workers[w]
            n == Len(wr.calls)
            returned == wr.pc \in {"returned", "done"}
        IN /\ \A k \in 1..n :
                 /\ IsChunkBoundary(wr.callIters[k], wr.loops)
                 /\ (k < n \/ ~returned) => wr.calls[k][1] = wr.callIters[k]
           /\ returned =>
                 /\ n > 0 /\ wr.calls[n][1] = wr.loops
                 /\ (~wr.observed /\ wr.exc = <<>>) => wr.callIters[n] = wr.loops
                 /\ wr.observed => wr.callIters[n] < wr.loops

\* C22 witness: a run cancelled after some chunks of more than one iteration
\* but not all: its callback was invoked at the end of each chunk and once
\* more from the finally block
C22_Witness ==
    \E w \in Live :
        /\ workers[w].pc = "done" /\ workers[w].observed
        /\ workers[w].loops = LOOPS
        /\ Len(workers[w].calls) > 2
        /\ workers[w].iters < workers[w].loops

\* the cells of Array1Glob and Array2Glob that the claim names, after k passes
Array1After(c) == IF c \in {8, 9} THEN 7 ELSE IF c = 38 THEN 8 ELSE 0
Array2After(r, c, k) ==
    IF r = 8 /\ c \in {8, 9} THEN 8
    ELSE IF r = 28 /\ c = 8 THEN 7
    ELSE IF r = 8 /\ c = 7 THEN 10 + k
    ELSE 0

\* C23: after k >= 1 completed kernel passes of a run, IntGlob = 5, BoolGlob
\* is true, Char1Glob = 'A', Char2Glob = 'B', Array1Glob[8] = Array1Glob[9] = 7,
\* Array1Glob[38] = 8, Array2Glob[8][8] = Array2Glob[8][9] = 8,
\* Array2Glob[28][8] = 7, Array2Glob[8][7] = 10 + k and every other array cell
\* is 0; PtrGlb is still the Record created at run start, with Discr = Ident1,
\* EnumComp = Ident3 and IntComp = 17.
C23_GlobalsAfterPasses ==
    \A w \in Live :
        LET g == bench[workers[w].benchmark]
            atStart == CreateRecords(RunBenchmarkEntry(NewBenchmark, workers[w].loops))
        IN g.passes >= 1 =>
              /\ g.IntGlob = 5 /\ g.BoolGlob # PyFALSE
              /\ g.Char1Glob = ChA /\ g.Char2Glob = ChB
              /\ \A c \in 0..(ArrayLen - 1) : ArrayGet(g.Array1Glob, c) = Array1After(c)
              /\ \A r, c \in 0..(ArrayLen - 1) :
                    MatrixGet(g.Array2Glob, r, c) = Array2After(r, c, g.passes)
              /\ g.PtrGlb = atStart.PtrGlb
              /\ g.heap[g.PtrGlb].Discr = Ident1
              /\ g.heap[g.PtrGlb].EnumComp = Ident3
              /\ g.heap[g.PtrGlb].IntComp = 17

\* C23 witness: the timed loop of the default run after its third pass
C23_Witness ==
    \E w \in Live :
        /\ workers[w].pc = "timed" /\ workers[w].loops = LOOPS
        /\ bench[workers[w].benchmark].passes = 3
        /\ MatrixGet(bench[workers[w].benchmark].Array2Glob, 8, 7) = 13

\* the loops of the kernel pass about to start on g: the integer loop runs
\* once, Proc2 leaves its loop in the first iteration, the loop of Func2 ends
\* after one iteration, the character loop runs twice
KernelLoopsAsClaimed(g) ==
    /\ WhileIters(2, 3) = 1
    /\ Proc2Bound(Proc4(Proc5(g)))
    /\ Func2(String1Loc, String2Loc).ok /\ Func2(String1Loc, String2Loc).iters = 1
    /\ CharLoopIters(ChA, Proc4(Proc5(g)).Char2Glob) = 2

\* C24: every kernel pass terminates: in each pass `while IntLoc1 < IntLoc2`
\* runs once, Proc2 leaves its `while 1` in the first iteration (Char1Glob is
\* 'A'), the loop of Func2 ends after one iteration and the character loop
\* from 'A' to Char2Glob runs twice; a run that is not stopped reaches its
\* return.
C24_EveryPassTerminates ==
    /\ [](\A w \in Live : workers[w].pc = "kernel"
                            => KernelLoopsAsClaimed(bench[workers[w].benchmark]))
    /\ <>(\A w \in WorkerIds : workers[w].pc = "done" /\ ~workers[w].result.none)

\* C24 witness: a run of 200000 iterations has returned a result after its
\* 100 kernel passes
C24_Witness ==
    \E w \in Live :
        /\ workers[w].pc = "returned" /\ workers[w].loops = HugeLoops
        /\ ~workers[w].result.none
        /\ bench[workers[w].benchmark].passes = 100

\* C25: start_benchmark invoked with 'Number of runs' = n >= 1 executes n runs
\* one after another: once the handler has returned, a run that it started is
\* queued, executing or ended.
C25_StartExecutesRuns ==
    (Len(bench) > 1 /\ gui.pc = "idle") => \E w \in WorkerIds : workers[w].byStart

C27_NoProgressAfterStop == \A w \in Live : ~workers[w].lateProgress

\* C28: for every sequence of HardwareMonitor.start() and stop() calls, at
\* most one thread is executing _monitor_loop at any time, also when the
\* join in stop() has timed out
C28_OneMonitorThread == Cardinality(InMonitorLoop(mon)) <= 1

\* C29: once the monitoring thread of a started monitor has ended because
\* capture_metrics raised, the next call of stop() raises the exception that
\* thread stored
C29_NextStopRaises ==
    (mon.last.call = "stop" /\ mon.last.owed # None)
        => (mon.last.outcome = "raised" /\ mon.last.raised = mon.last.owed)

\* C30: load_language(c) and set_language(c) return True only with the
\* translations of c loaded: a True return leaves current_lang = c and an
\* entry for c in translations, and a call for a language whose file cannot
\* be loaded returns False
C30_TrueOnlyIfLoaded ==
    lang.last.op \in {"load_language", "set_language"}
        => /\ lang.last.ret => (lang.current_lang = lang.last.code
                                /\ lang.last.code \in lang.translations)
           /\ lang.files[lang.last.code] # "good" => ~lang.last.ret

====
